---- MODULE Spec2Model ----
(***************************************************************************)
(* Model of atlaskit's report computations (atlas_report.py and            *)
(* prob_label_vol_info.py): the NaN-aware upper-triangle mean, the padded  *)
(* bounding box, the metrics CSV loader, the left/right volume integrator, *)
(* the coronal montage, the montage crop and the summary report.           *)
(* The program is single-threaded batch code, so                           *)
(* each routine is one action from an input state to a result state; the   *)
(* inputs are drawn from bounded sets in the initial states.               *)
(*                                                                         *)
(* Floating point values are modelled as exact integers in a fixed unit    *)
(* (thousandths for similarity values, probability quanta for volumes);    *)
(* the value sets are chosen so that no rendering falls on a rounding tie. *)
(***************************************************************************)
EXTENDS Integers, Sequences, FiniteSets, TLC

VARIABLES pc,                       \* the routine being run and its stage
          x, xms, xms_prev, edits,  \* mean_triu_str: matrix, result, last result
          mask, padding, box, box0, \* bb: arguments, result, first result
          intra_csv, inter_csv,     \* load_metrics: the data rows of the two files
          corrupt, metrics,         \* rows damaged so far; load_metrics' result
          p, atlas_vox_vol_ul,      \* print_vol_info: atlas and voxel volume
          table,                    \* print_vol_info: the rows printed
          img, n_rows, n_cols,      \* coronal_montage: arguments
          cor_mont,                 \* coronal_montage: result
          atlas, intra_stats,       \* summary_report: atlas mask, metrics tuple
          report,                   \* summary_report: what it produced
          p_all, crop               \* prob_montage: atlas mask, cropped ranges

meanVars == <<x, xms, xms_prev, edits>>

bbVars == <<mask, padding, box, box0>>

loadVars == <<intra_csv, inter_csv, corrupt, metrics>>

volVars == <<p, atlas_vox_vol_ul, table>>

montVars == <<img, n_rows, n_cols, cor_mont>>

sumVars == <<atlas, intra_stats, report>>

probVars == <<p_all, crop>>

vars == <<pc, meanVars, bbVars, loadVars, volVars, montVars, sumVars, probVars>>

\* The value a component's variables hold while another routine is modelled.
Idle == "idle"

\* A floating point cell is <<v>> for the number v, or NaN (IEEE not-a-number).
NaN == <<>>

Num(v) == <<v>>

----------------------------------------------------------------------------
(* Generic helpers *)

RECURSIVE SeqSum(_)
SeqSum(s) == IF s = <<>> THEN 0 ELSE Head(s) + SeqSum(Tail(s))

RECURSIVE SetSum(_, _)
\* Sum of f[e] over the elements e of the finite set S.
SetSum(f, S) ==
    IF S = {} THEN 0
    ELSE LET e == CHOOSE e \in S : TRUE IN f[e] + SetSum(f, S \ {e})

Min(a, b) == IF a < b THEN a ELSE b

Max(a, b) == IF a > b THEN a ELSE b

Abs(a) == IF a < 0 THEN 0 - a ELSE a

----------------------------------------------------------------------------
(* "%0.3f" rendering of a non-negative value given in thousandths *)

Digits == <<"0", "1", "2", "3", "4", "5", "6", "7", "8", "9">>

RECURSIVE IntStr(_)
\* Decimal digits of a natural number.
IntStr(k) == IF k < 10 THEN Digits[k + 1]
             ELSE IntStr(k \div 10) \o Digits[(k % 10) + 1]

\* The text of q/1000 with exactly three decimals.
Str3(q) == IntStr(q \div 1000) \o "."
           \o Digits[((q \div 100) % 10) + 1]
           \o Digits[((q \div 10) % 10) + 1]
           \o Digits[(q % 10) + 1]

\* "%0.3f" % (s/c), s in thousandths, c > 0: the nearest thousandth.
Fmt3(s, c) == Str3((2 * s + c) \div (2 * c))

----------------------------------------------------------------------------
(* mean_triu_str (atlas_report.py) *)

\* Largest matrix side.
MaxN == 3

\* Largest number of lower-triangle / diagonal entries overwritten.
MaxEdits == 1

\* Similarity values, in thousandths (0.6 and 2.0), and NaN.
Vals == {600, 2000}

Entries == {Num(v) : v \in Vals} \cup {NaN}

\* Index pairs of an n x n matrix, 0-based, row-major, as numpy enumerates.
AllIdx(n) == [m \in 1..(n * n) |-> <<(m - 1) \div n, (m - 1) % n>>]

\* Mutant of triu_indices: the diagonal offset is ignored (k = 0).
triu_indices_diag(n, k) == SelectSeq(AllIdx(n), LAMBDA ij : ij[2] - ij[1] >= 0)

\* np.triu_indices(n, k): the pairs (i, j) with j - i >= k, row-major.
triu_indices(n, k) == SelectSeq(AllIdx(n), LAMBDA ij : ij[2] - ij[1] >= k)

\* x[np.triu_indices(n, 1)]: the selected entries, as a flat sequence.
UpperTriangle(m) ==
    LET idx == triu_indices(m.shape, 1)
    IN  [k \in 1..Len(idx) |-> m.data[idx[k]]]

\* np.sum(np.isnan(xut))
CountNaN(xut) == Len(SelectSeq(xut, LAMBDA v : v = NaN))

\* Mutant of the sentinel test: any NaN in the upper triangle gives "-".
AllNaN_any(n_nans, size) == n_nans > 0 \/ size = 0

\* n_nans == xut.size
AllNaN(n_nans, size) == n_nans = size

\* np.nanmean(xut) rendered with "%0.3f": NaNs are dropped from both the sum
\* and the count.
NanMeanStr(xut) ==
    LET kept == SelectSeq(xut, LAMBDA v : v # NaN)
    IN  Fmt3(SeqSum([k \in 1..Len(kept) |-> kept[k][1]]), Len(kept))

mean_triu_str(m) ==
    LET xut == UpperTriangle(m)
        n_nans == CountNaN(xut)
    IN  IF AllNaN(n_nans, Len(xut)) THEN "-" ELSE NanMeanStr(xut)

\* The matrices handed to mean_triu_str: n x n, any entry a value or NaN in
\* the strict upper triangle; the diagonal and the lower triangle all NaN (the
\* pairs never compared) or all one value.
Cells(n) == (0..(n - 1)) \X (0..(n - 1))

IsUpper(ij) == ij[1] < ij[2]

UpperCells(n) == {ij \in Cells(n) : IsUpper(ij)}

MeanInputs ==
    UNION {{[shape |-> n,
             data |-> [ij \in Cells(n) |-> IF IsUpper(ij) THEN u[ij] ELSE fill]] :
              u \in [UpperCells(n) -> Entries], fill \in Entries}
           : n \in 1..MaxN}

MeanIdle == x = Idle /\ xms = Idle /\ xms_prev = Idle /\ edits = 0

\* No call made yet.
NoBox == [outcome |-> "none", val |-> <<>>]

BBIdle == mask = Idle /\ padding = 0 /\ box = NoBox /\ box0 = NoBox

\* load_metrics not called yet.
NoMetrics == [outcome |-> "none"]

LoadIdle ==
    intra_csv = <<>> /\ inter_csv = <<>> /\ corrupt = 0 /\ metrics = NoMetrics

\* print_vol_info not called yet.
NoTable == [outcome |-> "none", rows |-> <<>>]

VolIdle == p = Idle /\ atlas_vox_vol_ul = 0 /\ table = NoTable

\* coronal_montage not called yet.
NoMontage == [shape |-> <<0, 0>>]

MontIdle == img = Idle /\ n_rows = 0 /\ n_cols = 0 /\ cor_mont = NoMontage

\* No report produced yet.
NoReport == [outcome |-> "none", montage_fname |-> "", stats |-> <<>>,
             written |-> {}]

SumIdle == atlas = Idle /\ intra_stats = Idle /\ report = NoReport

\* No crop computed yet.
NoCrop == [outcome |-> "none", box |-> <<>>, vox |-> {}]

ProbIdle == p_all = Idle /\ crop = NoCrop

MeanInit ==
    /\ pc = "mean_input"
    /\ BBIdle
    /\ LoadIdle
    /\ VolIdle
    /\ MontIdle
    /\ SumIdle
    /\ ProbIdle
    /\ x \in MeanInputs
    /\ xms = Idle
    /\ xms_prev = Idle
    /\ edits = 0

\* The call xms = mean_triu_str(x).
MeanCall ==
    /\ pc = "mean_input"
    /\ xms' = mean_triu_str(x)
    /\ pc' = "mean_called"
    /\ UNCHANGED <<x, xms_prev, edits, bbVars, loadVars, volVars, montVars,
                 sumVars, probVars>>

\* The caller overwrites one diagonal or lower-triangle entry and will call
\* again; the previous result is remembered.
MeanPerturb ==
    /\ pc = "mean_called"
    /\ edits < MaxEdits
    /\ \E ij \in Cells(x.shape), v \in Entries :
          /\ ~IsUpper(ij)
          /\ v # x.data[ij]
          /\ x' = [x EXCEPT !.data[ij] = v]
    /\ xms_prev' = xms
    /\ xms' = Idle
    /\ edits' = edits + 1
    /\ pc' = "mean_input"
    /\ UNCHANGED <<bbVars, loadVars, volVars, montVars,
                 sumVars, probVars>>

MeanNext == MeanCall \/ MeanPerturb

SpecMean == MeanInit /\ [][MeanNext]_vars

----------------------------------------------------------------------------
(* Claims about mean_triu_str *)

\* The strict-upper, non-NaN positions of a matrix.
UpperValued(m) == {ij \in Cells(m.shape) : IsUpper(ij) /\ m.data[ij] # NaN}

\* C1: when some entry strictly above the diagonal is not NaN, the result is
\* the three-decimal text of the nearest thousandth to the arithmetic mean of
\* exactly the non-NaN entries with i < j, and overwriting a diagonal or
\* lower-triangle entry (also with NaN) leaves the result unchanged.
C1_MeanOfUpper ==
    (pc = "mean_called" /\ UpperValued(x) # {}) =>
        LET S == UpperValued(x)
            s == SetSum([ij \in S |-> x.data[ij][1]], S)
            c == Cardinality(S)
        IN  /\ \E q \in (s \div c)..((s \div c) + 1) :
                  /\ 2 * Abs(q * c - s) <= c
                  /\ xms = Str3(q)
            /\ (edits > 0 => xms = xms_prev)

C1_Witness ==
    /\ pc = "mean_called"
    /\ edits > 0
    /\ x.shape = 3
    /\ x.data[<<0, 1>>] = Num(600) /\ x.data[<<0, 2>>] = NaN /\ x.data[<<1, 2>>] = Num(2000)
    /\ x.data[<<2, 0>>] = NaN /\ x.data[<<1, 0>>] = Num(2000)
    /\ xms = "1.300"

\* C2: the result is "-" exactly when every entry strictly above the diagonal
\* is NaN (also for a 1 x 1 matrix, whose upper triangle is empty).
C2_SentinelIff ==
    pc = "mean_called" =>
        (xms = "-" <=> \A ij \in Cells(x.shape) : IsUpper(ij) => x.data[ij] = NaN)

C2_Witness ==
    /\ pc = "mean_called"
    /\ x.shape = 3
    /\ x.data[<<0, 1>>] = NaN /\ x.data[<<0, 2>>] = NaN /\ x.data[<<1, 2>>] = NaN
    /\ x.data[<<1, 1>>] = Num(600)
    /\ xms = "-"

----------------------------------------------------------------------------
(* bb (atlas_report.py): padded bounding box of a 3D boolean mask *)

\* Largest extent of a mask axis.
MaxDim == 3

\* Largest number of true voxels in a mask.
MaxVox == 2

\* Largest padding.
MaxPad == 1

\* The subsets of V with at most k elements.
RECURSIVE UpTo(_, _)
UpTo(V, k) ==
    IF k = 0 THEN {{}}
    ELSE LET prev == UpTo(V, k - 1)
         IN  prev \cup {s \cup {v} : s \in prev, v \in V}

\* Voxel indices of an array of the given shape, 0-based.
Voxels(shape) ==
    (0..(shape[1] - 1)) \X (0..(shape[2] - 1)) \X (0..(shape[3] - 1))

\* np.max(np.max(mask, ...), ...): the projection of the mask onto axis a,
\* true at index i when some voxel with that index is true.
Proj(m, a) == [i \in 0..(m.shape[a] - 1) |-> \E v \in m.vox : v[a] = i]

\* np.nonzero(proj)[0]
NonZero(proj) == {i \in DOMAIN proj : proj[i]}

SetMin(S) == CHOOSE i \in S : \A j \in S : i <= j

SetMax(S) == CHOOSE i \in S : \A j \in S : j <= i

\* Mutant of np.clip: the upper limit is taken one short (hi - 1).
clip_short(a, lo, hi) == Min(Max(a, lo), Max(hi - 1, lo))

\* np.clip(a, lo, hi)
clip(a, lo, hi) == Min(Max(a, lo), hi)

\* Mutant of the per-axis limits: the last non-zero index is taken one short.
AxisLimits_short(m, a, pad) ==
    LET nz == NonZero(Proj(m, a))
    IN  <<clip(SetMin(nz) - pad, 0, m.shape[a] - 1),
          clip(Max(SetMax(nz) - 1, SetMin(nz)) + pad, 0, m.shape[a] - 1)>>

\* Lines 543-553 for one axis: min and max of the non-zero projection,
\* padded, then clipped to the image bounds.
AxisLimits(m, a, pad) ==
    LET nz == NonZero(Proj(m, a))
    IN  <<clip(SetMin(nz) - pad, 0, m.shape[a] - 1),
          clip(SetMax(nz) + pad, 0, m.shape[a] - 1)>>

\* bb(mask, padding).  np.min of an empty index array raises numpy's
\* ValueError (zero-size array to reduction operation); bb has no test for an
\* empty mask and defines no error of its own.
bb(m, pad) ==
    IF NonZero(Proj(m, 1)) = {}
    THEN [outcome |-> "ValueError", val |-> <<>>]
    ELSE [outcome |-> "ok",
          val |-> AxisLimits(m, 1, pad) \o AxisLimits(m, 2, pad)
                  \o AxisLimits(m, 3, pad)]

Shapes == (1..MaxDim) \X (1..MaxDim) \X (1..MaxDim)

BBInit ==
    /\ pc = "bb_input"
    /\ MeanIdle
    /\ LoadIdle
    /\ VolIdle
    /\ MontIdle
    /\ SumIdle
    /\ ProbIdle
    /\ \E shape \in Shapes :
          mask \in {[shape |-> shape, vox |-> s] : s \in UpTo(Voxels(shape), MaxVox)}
    /\ padding \in 0..MaxPad
    /\ box = NoBox
    /\ box0 = NoBox

\* The call box = bb(mask, padding).
BBCall ==
    /\ pc = "bb_input"
    /\ box' = bb(mask, padding)
    /\ pc' = "bb_called"
    /\ UNCHANGED <<mask, padding, box0, meanVars, loadVars, volVars, montVars,
                 sumVars, probVars>>

\* Voxels inside a returned box (limits inclusive).
InBox(v, b) ==
    /\ b[1] <= v[1] /\ v[1] <= b[2]
    /\ b[3] <= v[2] /\ v[2] <= b[4]
    /\ b[5] <= v[3] /\ v[3] <= b[6]

\* The caller clears every voxel outside the box it got with padding 0 and
\* will call again.
BBRestrict ==
    /\ pc = "bb_called"
    /\ box0 = NoBox
    /\ padding = 0
    /\ box.outcome = "ok"
    /\ mask' = [mask EXCEPT !.vox = {v \in mask.vox : InBox(v, box.val)}]
    /\ box0' = box
    /\ box' = NoBox
    /\ pc' = "bb_input"
    /\ UNCHANGED <<padding, meanVars, loadVars, volVars, montVars,
                 sumVars, probVars>>

BBNext == BBCall \/ BBRestrict

SpecBB == BBInit /\ [][BBNext]_vars

----------------------------------------------------------------------------
(* Claims about bb *)

FirstTrue(m, a) == SetMin({v[a] : v \in m.vox})

LastTrue(m, a) == SetMax({v[a] : v \in m.vox})

\* C3: for a mask with a true voxel, on each axis the lower limit is
\* max(0, first true index - padding) and the upper limit is
\* min(extent - 1, last true index + padding), so 0 <= lower <= upper < extent.
C3_BoxLimits ==
    (pc = "bb_called" /\ mask.vox # {}) =>
        /\ box.outcome = "ok"
        /\ Len(box.val) = 6
        /\ \A a \in 1..3 :
              LET lo == box.val[2 * a - 1]
                  hi == box.val[2 * a]
              IN  /\ lo = Max(0, FirstTrue(mask, a) - padding)
                  /\ hi = Min(mask.shape[a] - 1, LastTrue(mask, a) + padding)
                  /\ 0 <= lo /\ lo <= hi /\ hi < mask.shape[a]

C3_Witness ==
    /\ pc = "bb_called"
    /\ mask.shape = <<3, 2, 3>>
    /\ mask.vox = {<<2, 0, 1>>, <<2, 1, 2>>}
    /\ padding = 1
    /\ box.val = <<1, 2, 0, 1, 0, 2>>

\* C4 (as claimed): on a mask with no true voxel bb fails with EmptyMaskError.
C4_EmptyMaskError ==
    (pc = "bb_called" /\ mask.vox = {}) => box.outcome = "EmptyMaskError"

\* C5: with padding 0, the box of the mask cleared outside its own box is
\* the same box.
C5_Idempotent ==
    (pc = "bb_called" /\ box0 # NoBox) => box = box0

C5_Witness ==
    /\ pc = "bb_called"
    /\ box0 # NoBox
    /\ mask.shape = <<3, 3, 3>>
    /\ mask.vox = {<<0, 1, 2>>, <<2, 1, 1>>}
    /\ box.val = <<0, 2, 1, 1, 1, 2>>

----------------------------------------------------------------------------
(* load_metrics (atlas_report.py): the two metrics files to 4D tensors *)

\* Largest number of labels, of observers and of templates in an atlas.
MaxLabels == 2

MaxObservers == 2

MaxTemplates == 2

\* Largest number of rows damaged (deleted or repeated) in the files.
MaxCorrupt == 2

\* The values the upstream writer records for label l, group g, pair (a, b):
\* distinct for distinct index tuples, and distinct between dice and haus.
SynthDice(l, g, a, b) == Num(1000 * l + 100 * g + 10 * a + b)

SynthHaus(l, g, a, b) == Num(5000 + 1000 * l + 100 * g + 10 * a + b)

LabelName(no) == "label" \o Digits[no + 1]

\* The k-th (1-based) index tuple of the nested loops over
\* (0..n1-1) x (0..n2-1) x (0..n3-1) x (0..n4-1), last index fastest.
Nested(k, n2, n3, n4) ==
    <<(k - 1) \div (n2 * n3 * n4), ((k - 1) \div (n3 * n4)) % n2,
      ((k - 1) \div n4) % n3, (k - 1) % n4>>

\* intra_observer_metrics.csv as written upstream: label (outer), observer,
\* tmpA, tmpB (inner); nos[l + 1] is the number of the l-th label written.
WriteIntra(nos, n_obs, n_tmp) ==
    [k \in 1..(Len(nos) * n_obs * n_tmp * n_tmp) |->
        LET t == Nested(k, n_obs, n_tmp, n_tmp)
        IN  [labelName |-> LabelName(nos[t[1] + 1]), labelNo |-> nos[t[1] + 1],
             observer |-> t[2], tmpA |-> t[3], tmpB |-> t[4],
             dice |-> SynthDice(t[1], t[2], t[3], t[4]),
             haus |-> SynthHaus(t[1], t[2], t[3], t[4])]]

\* inter_observer_metrics.csv as written upstream: label (outer), template,
\* obsA, obsB (inner).
WriteInter(nos, n_obs, n_tmp) ==
    [k \in 1..(Len(nos) * n_tmp * n_obs * n_obs) |->
        LET t == Nested(k, n_tmp, n_obs, n_obs)
        IN  [labelName |-> LabelName(nos[t[1] + 1]), labelNo |-> nos[t[1] + 1],
             template |-> t[2], obsA |-> t[3], obsB |-> t[4],
             dice |-> SynthDice(t[1], t[2], t[3], t[4]),
             haus |-> SynthHaus(t[1], t[2], t[3], t[4])]]

\* m['col']: one column of the parsed rows.
Column(m, col) == [k \in 1..Len(m) |-> m[k][col]]

RECURSIVE SortedSeq(_)
\* The elements of a finite set of integers in ascending order.
SortedSeq(S) ==
    IF S = {} THEN <<>>
    ELSE LET lo == CHOOSE i \in S : \A j \in S : i <= j
         IN  <<lo>> \o SortedSeq(S \ {lo})

\* np.unique(col): the sorted distinct values.
unique(col) == SortedSeq({col[k] : k \in 1..Len(col)})

\* The idx of np.unique(col, return_index=True): for each sorted distinct
\* value, the (1-based) position of its first occurrence.
unique_index(col) ==
    LET u == unique(col)
    IN  [i \in 1..Len(u) |->
            CHOOSE k \in 1..Len(col) :
                col[k] = u[i] /\ \A j \in 1..(k - 1) : col[j] # u[i]]

\* Mutant of reshape: the two pair axes are laid out in the other order.
reshape_swapped(flat, shape) ==
    IF Len(flat) # shape[1] * shape[2] * shape[3] * shape[4]
    THEN [outcome |-> "ValueError"]
    ELSE [outcome |-> "ok",
          shape |-> shape,
          data |-> [t \in (0..(shape[1] - 1)) \X (0..(shape[2] - 1))
                          \X (0..(shape[3] - 1)) \X (0..(shape[4] - 1)) |->
                      flat[((t[1] * shape[2] + t[2]) * shape[3] + t[4])
                           * shape[4] + t[3] + 1]]]

\* Mutant of reshape: a size mismatch is not detected; the cells past the
\* data read as NaN.
reshape_unchecked(flat, shape) ==
    [outcome |-> "ok",
     shape |-> shape,
     data |-> [t \in (0..(shape[1] - 1)) \X (0..(shape[2] - 1))
                     \X (0..(shape[3] - 1)) \X (0..(shape[4] - 1)) |->
                 LET k == ((t[1] * shape[2] + t[2]) * shape[3] + t[3])
                          * shape[4] + t[4] + 1
                 IN  IF k <= Len(flat) THEN flat[k] ELSE NaN]]

\* flat.reshape(shape): numpy raises ValueError when the sizes differ,
\* otherwise cell (l, g, a, b) is element ((l*n2 + g)*n3 + a)*n4 + b of the
\* column, in file order (C layout).
reshape(flat, shape) ==
    IF Len(flat) # shape[1] * shape[2] * shape[3] * shape[4]
    THEN [outcome |-> "ValueError"]
    ELSE [outcome |-> "ok",
          shape |-> shape,
          data |-> [t \in (0..(shape[1] - 1)) \X (0..(shape[2] - 1))
                          \X (0..(shape[3] - 1)) \X (0..(shape[4] - 1)) |->
                      flat[((t[1] * shape[2] + t[2]) * shape[3] + t[3])
                           * shape[4] + t[4] + 1]]]

\* Lines 576-600: the intra-observer tuple, or the error reshape raised.
LoadIntra(m) ==
    LET label_nos == unique(Column(m, "labelNo"))
        idx == unique_index(Column(m, "labelNo"))
        label_names == [i \in 1..Len(idx) |-> m[idx[i]].labelName]
        observers == unique(Column(m, "observer"))
        templates == unique(Column(m, "tmpA"))
        n_labels == Len(label_names)
        n_templates == Len(templates)
        n_observers == Len(observers)
        shape == <<n_labels, n_observers, n_templates, n_templates>>
        dice == reshape(Column(m, "dice"), shape)
        haus == reshape(Column(m, "haus"), shape)
    IN  IF dice.outcome # "ok" THEN [outcome |-> dice.outcome]
        ELSE IF haus.outcome # "ok" THEN [outcome |-> haus.outcome]
        ELSE [outcome |-> "ok", label_names |-> label_names,
              label_nos |-> label_nos, observers |-> observers,
              templates |-> templates, dice |-> dice, haus |-> haus]

\* Lines 607-633: the inter-observer tuple, or the error reshape raised.
LoadInter(m) ==
    LET label_nos == unique(Column(m, "labelNo"))
        idx == unique_index(Column(m, "labelNo"))
        label_names == [i \in 1..Len(idx) |-> m[idx[i]].labelName]
        templates == unique(Column(m, "template"))
        observers == unique(Column(m, "obsA"))
        n_labels == Len(label_names)
        n_templates == Len(templates)
        n_observers == Len(observers)
        shape == <<n_labels, n_templates, n_observers, n_observers>>
        dice == reshape(Column(m, "dice"), shape)
        haus == reshape(Column(m, "haus"), shape)
    IN  IF dice.outcome # "ok" THEN [outcome |-> dice.outcome]
        ELSE IF haus.outcome # "ok" THEN [outcome |-> haus.outcome]
        ELSE [outcome |-> "ok", label_names |-> label_names,
              label_nos |-> label_nos, observers |-> observers,
              templates |-> templates, dice |-> dice, haus |-> haus]

\* load_metrics(atlas_dir): both tuples, or the first error raised (the
\* inter-observer file is not read when the intra-observer file fails).
load_metrics(intra, inter) ==
    LET intra_metrics == LoadIntra(intra)
        inter_metrics == LoadInter(inter)
    IN  IF intra_metrics.outcome # "ok" THEN [outcome |-> intra_metrics.outcome]
        ELSE IF inter_metrics.outcome # "ok" THEN [outcome |-> inter_metrics.outcome]
        ELSE [outcome |-> "ok", intra |-> intra_metrics, inter |-> inter_metrics]

\* The orders in which an atlas of n labels may have its labels written:
\* ascending dense numbers 0..n-1, or the same numbers descending.
LabelOrders(n) == {[i \in 1..n |-> i - 1], [i \in 1..n |-> n - i]}

\* A file of one data row is parsed by genfromtxt into a 0-d record, a
\* separate path; the atlases modelled have at least two rows per file.
LoadInit ==
    /\ pc = "load_input"
    /\ MeanIdle
    /\ BBIdle
    /\ VolIdle
    /\ MontIdle
    /\ SumIdle
    /\ ProbIdle
    /\ \E n_labels \in 1..MaxLabels, n_obs \in 1..MaxObservers,
          n_tmp \in 1..MaxTemplates :
          \E nos \in LabelOrders(n_labels) :
             /\ intra_csv = WriteIntra(nos, n_obs, n_tmp)
             /\ inter_csv = WriteInter(nos, n_obs, n_tmp)
    /\ Len(intra_csv) >= 2
    /\ Len(inter_csv) >= 2
    /\ corrupt = 0
    /\ metrics = NoMetrics

DeleteRow(m, k) == SubSeq(m, 1, k - 1) \o SubSeq(m, k + 1, Len(m))

RepeatRow(m, k) == SubSeq(m, 1, k) \o SubSeq(m, k, Len(m))

\* A file reaches the loader damaged: its first or last row missing or
\* repeated.
Corrupt ==
    /\ pc = "load_input"
    /\ corrupt < MaxCorrupt
    /\ \/ \E k \in {1, Len(intra_csv)} :
             /\ intra_csv' \in {DeleteRow(intra_csv, k), RepeatRow(intra_csv, k)}
             /\ Len(intra_csv') >= 2
             /\ UNCHANGED inter_csv
       \/ \E k \in {1, Len(inter_csv)} :
             /\ inter_csv' \in {DeleteRow(inter_csv, k), RepeatRow(inter_csv, k)}
             /\ Len(inter_csv') >= 2
             /\ UNCHANGED intra_csv
    /\ corrupt' = corrupt + 1
    /\ UNCHANGED <<pc, metrics, meanVars, bbVars, volVars, montVars,
                 sumVars, probVars>>

\* The call intra_stats, inter_stats = load_metrics(atlas_dir).
LoadCall ==
    /\ pc = "load_input"
    /\ metrics' = load_metrics(intra_csv, inter_csv)
    /\ pc' = "load_called"
    /\ UNCHANGED <<intra_csv, inter_csv, corrupt, meanVars, bbVars, volVars,
                   montVars, sumVars, probVars>>

LoadNext == Corrupt \/ LoadCall

SpecLoad == LoadInit /\ [][LoadNext]_vars

----------------------------------------------------------------------------
(* Claims about load_metrics *)

\* The rows of a file carry the label numbers in ascending order.
AscendingLabels(m) ==
    \A k \in 1..(Len(m) - 1) : m[k].labelNo <= m[k + 1].labelNo

\* The tensor t holds, at every index, the value of column col of the row of
\* file m written for that (label, group, pairA, pairB), and every row of m
\* has its cell.
HoldsRows(t, m, col, group, pairA, pairB) ==
    /\ t.outcome = "ok"
    /\ \A k \in 1..Len(m) :
          LET i == <<m[k].labelNo, m[k][group], m[k][pairA], m[k][pairB]>>
          IN  i \in DOMAIN t.data /\ t.data[i] = m[k][col]
    /\ \A i \in DOMAIN t.data :
          \E k \in 1..Len(m) :
             i = <<m[k].labelNo, m[k][group], m[k][pairA], m[k][pairB]>>

Distinct(m, col) == Cardinality({m[k][col] : k \in 1..Len(m)})

\* The row count of a file differs from n_labels * n_group * n_pair * n_pair,
\* the counts being those of the distinct values in the file.
Mismatch(m, group, pair) ==
    Len(m) # Distinct(m, "labelNo") * Distinct(m, group)
              * Distinct(m, pair) * Distinct(m, pair)

SomeMismatch ==
    \/ Mismatch(intra_csv, "observer", "tmpA")
    \/ Mismatch(inter_csv, "template", "obsA")

RECURSIVE FirstSeen(_)
\* The distinct values of a column in the order of their first appearance.
FirstSeen(col) ==
    IF Len(col) = 0 THEN <<>>
    ELSE LET front == FirstSeen(SubSeq(col, 1, Len(col) - 1))
             last == col[Len(col)]
         IN  IF \E i \in 1..Len(front) : front[i] = last THEN front
             ELSE Append(front, last)

\* The label lists of a loaded tuple t follow the first appearance of the
\* labels in the file m, and slice [l,:,:,:] of its tensors holds the rows of
\* the label that label_nos[l] and label_names[l] name.
LabelsAsInFile(t, m) ==
    LET seen == FirstSeen(Column(m, "labelNo"))
        per == t.dice.shape[2] * t.dice.shape[3] * t.dice.shape[4]
    IN  /\ t.label_nos = seen
        /\ \A k \in 1..Len(m) :
              LET l == (k - 1) \div per
              IN  /\ t.label_nos[l + 1] = m[k].labelNo
                  /\ t.label_names[l + 1] = m[k].labelName

\* C12 (as claimed): load_metrics orders the labels by their first appearance
\* in the file, so label_nos[l] and label_names[l] name the label whose rows
\* fill tensor slice [l,:,:,:], also when the label numbers are not ascending
\* in the file.
C12_FirstAppearanceOrder ==
    (pc = "load_called" /\ corrupt = 0) =>
        /\ metrics.outcome = "ok"
        /\ LabelsAsInFile(metrics.intra, intra_csv)
        /\ LabelsAsInFile(metrics.inter, inter_csv)

----------------------------------------------------------------------------
(* print_vol_info (prob_label_vol_info.py): left/right volumes, laterality *)

\* Largest extents of the probabilistic atlas (x, y, z) and label count.
MaxNx == 4

MaxNy == 2

MaxNz == 1

MaxNt == 2

\* Largest number of voxels of non-zero probability in the atlas.
MaxMass == 2

\* Voxel volumes (microliters) an atlas header may give.
VoxVols == {1, 2}

\* Index tuples of a 4D array of the given shape.
Voxels4(shape) ==
    (0..(shape[1] - 1)) \X (0..(shape[2] - 1)) \X (0..(shape[3] - 1))
    \X (0..(shape[4] - 1))

\* The indices i that a Python slice [start:stop] selects on an axis of
\* length n (a negative bound counts from the end, bounds are clamped).
Slice(n, start, stop) ==
    LET lo == IF start < 0 THEN Max(start + n, 0) ELSE Min(start, n)
        hi == IF stop < 0 THEN Max(stop + n, 0) ELSE Min(stop, n)
    IN  {i \in 0..(n - 1) : lo <= i /\ i < hi}

\* np.sum(p[xs, :, :, t]) for a set xs of first-axis indices, in probability
\* quanta: vox holds the voxels of non-zero probability, one quantum each.
SumPlanes(a, xs, t) ==
    Cardinality({v \in a.vox : v[1] \in xs /\ v[4] = t})

\* int(nx/2)
HalfX(nx) == nx \div 2

\* Mutant of the division: dividing zero by zero raises, as Python floats do.
Divide_raising(num, den) ==
    IF den = 0 THEN [raised |-> TRUE, val |-> NaN]
    ELSE [raised |-> FALSE, val |-> <<num, den>>]

\* num / den on numpy floats: 0/0 is NaN (with a warning, no exception);
\* any other quotient is kept exact as the pair <<num, den>>.
Divide(num, den) ==
    IF den = 0 /\ num = 0 THEN [raised |-> FALSE, val |-> NaN]
    ELSE [raised |-> FALSE, val |-> <<num, den>>]

\* Lines 194-205 for label t: the volumes and the laterality index (%).
VolRow(a, vv, t) ==
    LET nx == a.shape[1]
        hx == HalfX(nx)
        Vr == SumPlanes(a, Slice(nx, 0, hx), t) * vv
        Vl == SumPlanes(a, Slice(nx, hx, 0 - 1), t) * vv
        q  == Divide(Vl - Vr, Vl + Vr)
    IN  [raised |-> q.raised,
         row |-> [label |-> t, Vl |-> Vl, Vr |-> Vr,
                  LIp |-> IF q.val = NaN THEN NaN
                          ELSE <<q.val[1] * 100, q.val[2]>>]]

RECURSIVE VolRows(_, _, _)
\* The loop of line 192 from label t on: the rows printed, until a row raises.
VolRows(a, vv, t) ==
    IF t >= a.shape[4] THEN [outcome |-> "ok", rows |-> <<>>]
    ELSE LET r == VolRow(a, vv, t)
         IN  IF r.raised THEN [outcome |-> "ZeroDivisionError", rows |-> <<>>]
             ELSE LET rest == VolRows(a, vv, t + 1)
                  IN  [outcome |-> rest.outcome, rows |-> <<r.row>> \o rest.rows]

print_vol_info(a, vv) == VolRows(a, vv, 0)

Shapes4 == (1..MaxNx) \X (1..MaxNy) \X (1..MaxNz) \X (1..MaxNt)

VolInit ==
    /\ pc = "vol_input"
    /\ MeanIdle
    /\ BBIdle
    /\ LoadIdle
    /\ MontIdle
    /\ SumIdle
    /\ ProbIdle
    /\ \E shape \in Shapes4 :
          p \in {[shape |-> shape, vox |-> s] : s \in UpTo(Voxels4(shape), MaxMass)}
    /\ atlas_vox_vol_ul \in VoxVols
    /\ table = NoTable

\* The call print_vol_info(p_file, keys).
VolCall ==
    /\ pc = "vol_input"
    /\ table' = print_vol_info(p, atlas_vox_vol_ul)
    /\ pc' = "vol_called"
    /\ UNCHANGED <<p, atlas_vox_vol_ul, meanVars, bbVars, loadVars, montVars,
                 sumVars, probVars>>

VolNext == VolCall

SpecVol == VolInit /\ [][VolNext]_vars

----------------------------------------------------------------------------
(* Claims about print_vol_info *)

\* Probability mass of label t on the planes x satisfying the test.
MassBelow(t) == Cardinality({v \in p.vox : v[4] = t /\ v[1] < HalfX(p.shape[1])})

MassAbove(t) == Cardinality({v \in p.vox : v[4] = t /\ v[1] >= HalfX(p.shape[1])})

\* The laterality index li is the number k.
IsNumber(li, k) == li # NaN /\ li[2] # 0 /\ li[1] = k * li[2]

\* C8 (as claimed): for a label of non-zero mass, the laterality index is
\* -100 when all mass lies at x < hx, +100 when all mass lies at x >= hx
\* (the last plane included), and 0 when the two masses are equal.
C8_Laterality ==
    pc = "vol_called" =>
        \A t \in 0..(p.shape[4] - 1) :
            (MassBelow(t) + MassAbove(t) > 0) =>
                /\ Len(table.rows) > t
                /\ MassAbove(t) = 0 => IsNumber(table.rows[t + 1].LIp, 0 - 100)
                /\ MassBelow(t) = 0 => IsNumber(table.rows[t + 1].LIp, 100)
                /\ MassBelow(t) = MassAbove(t) => IsNumber(table.rows[t + 1].LIp, 0)

\* C9: a label whose left and right volumes are both zero gets a NaN
\* laterality index, nothing is raised, and every label has its row.
C9_ZeroVolumeNaN ==
    pc = "vol_called" =>
        /\ table.outcome = "ok"
        /\ Len(table.rows) = p.shape[4]
        /\ \A k \in 1..Len(table.rows) :
              /\ table.rows[k].label = k - 1
              /\ (table.rows[k].Vl = 0 /\ table.rows[k].Vr = 0)
                    => table.rows[k].LIp = NaN

C9_Witness ==
    /\ pc = "vol_called"
    /\ p.shape = <<4, 1, 1, 2>>
    /\ p.vox = {<<0, 0, 0, 1>>, <<2, 0, 0, 1>>}
    /\ Len(table.rows) = 2
    /\ table.rows[1].Vl = 0 /\ table.rows[1].Vr = 0 /\ table.rows[1].LIp = NaN
    /\ IsNumber(table.rows[2].LIp, 0)

\* C15 (as claimed): the two sums partition the first axis: for every label
\* Vr is the mass of the planes 0..hx-1 and Vl the mass of the planes
\* hx..nx-1, each times the voxel volume, so that Vl + Vr is the whole mass of
\* the label times the voxel volume and no plane is dropped or counted twice.
C15_PlanesPartitioned ==
    pc = "vol_called" =>
        \A t \in 0..(p.shape[4] - 1) :
            /\ Len(table.rows) > t
            /\ table.rows[t + 1].Vr = MassBelow(t) * atlas_vox_vol_ul
            /\ table.rows[t + 1].Vl = MassAbove(t) * atlas_vox_vol_ul
            /\ table.rows[t + 1].Vl + table.rows[t + 1].Vr =
                  Cardinality({v \in p.vox : v[4] = t}) * atlas_vox_vol_ul

----------------------------------------------------------------------------
(* coronal_montage (atlas_report.py): tiled coronal sections *)

\* Largest extent of an axis of the image to montage.
MaxImg == 3

\* Largest number of montage rows and of montage columns asked for.
MaxGrid == 3

\* The intensity of voxel v in the test image of the given shape: positive
\* and different for every voxel, so that a pixel of the montage tells which
\* voxel it was taken from (0 is the fill value).
Intensity(shape, v) == 1 + v[1] + shape[1] * (v[2] + shape[2] * v[3])

\* The test image of the given shape.
TestImage(shape) ==
    [shape |-> shape, data |-> [v \in Voxels(shape) |-> Intensity(shape, v)]]

\* Mutant of linspace_int: the positions are rounded to the nearest integer
\* (halves to the even one) instead of truncated.
linspace_round(start, stop, num) ==
    [k \in 0..(num - 1) |->
        IF num = 1 THEN start
        ELSE LET a == k * (stop - start)
                 b == num - 1
                 q == a \div b
                 r == a % b
             IN  start + (IF 2 * r < b \/ (2 * r = b /\ q % 2 = 0) THEN q
                          ELSE q + 1)]

\* np.linspace(start, stop, num).astype(int) for 0 <= start <= stop: the
\* k-th (0-based) of num evenly spaced positions, truncated to an integer.
linspace_int(start, stop, num) ==
    [k \in 0..(num - 1) |->
        IF num = 1 THEN start
        ELSE start + (k * (stop - start)) \div (num - 1)]

\* np.transpose(img[:, yy, :], (1, 2, 0)): section k has nz rows and nx
\* columns, pixel (i, j) of it being img[j, yy[k], i].
Sections(a, yy) ==
    [k \in DOMAIN yy |->
        [ij \in (0..(a.shape[3] - 1)) \X (0..(a.shape[1] - 1)) |->
            a.data[<<ij[2], yy[k], ij[1]>>]]]

\* int(np.ceil(np.sqrt(n)))
CeilSqrt(n) == CHOOSE r \in 0..n : r * r >= n /\ (r = 0 \/ (r - 1) * (r - 1) < n)

\* skimage's montage2d(arr_in, fill) called without grid_shape: the n images
\* of height h and width w are laid row-major on a square grid of side
\* ceil(sqrt(n)); the cells past the last image hold the fill value.
montage2d(arr_in, h, w, fill) ==
    LET n == Cardinality(DOMAIN arr_in)
        alpha == CeilSqrt(n)
    IN  [shape |-> <<alpha * h, alpha * w>>,
         data |-> [rc \in (0..(alpha * h - 1)) \X (0..(alpha * w - 1)) |->
                     LET k == (rc[1] \div h) * alpha + (rc[2] \div w)
                     IN  IF k < n THEN arr_in[k][<<rc[1] % h, rc[2] % w>>]
                         ELSE fill]]

\* coronal_montage(img, n_rows, n_cols): n_rows and n_cols enter only through
\* their product n; rot is not used.
coronal_montage(a, rows, cols) ==
    LET n == rows * cols
        ny == a.shape[2]
        yy == linspace_int(0, ny - 1, n)
    IN  montage2d(Sections(a, yy), a.shape[3], a.shape[1], 0)

MontInit ==
    /\ pc = "mont_input"
    /\ MeanIdle
    /\ BBIdle
    /\ LoadIdle
    /\ VolIdle
    /\ SumIdle
    /\ ProbIdle
    /\ img \in {TestImage(shape) :
                  shape \in (1..MaxImg) \X (1..MaxImg) \X (1..MaxImg)}
    /\ n_rows \in 1..MaxGrid
    /\ n_cols \in 1..MaxGrid
    /\ cor_mont = NoMontage

\* The call cor_mont = coronal_montage(img, n_rows, n_cols).
MontCall ==
    /\ pc = "mont_input"
    /\ cor_mont' = coronal_montage(img, n_rows, n_cols)
    /\ pc' = "mont_called"
    /\ UNCHANGED <<img, n_rows, n_cols, meanVars, bbVars, loadVars, volVars,
                 sumVars, probVars>>

MontNext == MontCall

SpecMont == MontInit /\ [][MontNext]_vars

----------------------------------------------------------------------------
(* Claims about coronal_montage *)

\* C10 (as claimed): the montage has n_rows * h by n_cols * w pixels and
\* section k (in sampling order) fills grid cell (k div n_cols, k mod n_cols).
C10_RowMajorGrid ==
    pc = "mont_called" =>
        LET h == img.shape[3]
            w == img.shape[1]
            yy == linspace_int(0, img.shape[2] - 1, n_rows * n_cols)
        IN  /\ cor_mont.shape = <<n_rows * h, n_cols * w>>
            /\ \A k \in 0..(n_rows * n_cols - 1), i \in 0..(h - 1), j \in 0..(w - 1) :
                  LET rc == <<(k \div n_cols) * h + i, (k % n_cols) * w + j>>
                  IN  /\ rc \in DOMAIN cor_mont.data
                      /\ cor_mont.data[rc] = img.data[<<j, yy[k], i>>]

\* The y-index of the section shown in cell k (row-major, 0-based) of the
\* square grid of the montage, read back from the cell's first pixel: the
\* intensities of the test image are distinct.
SampledY(k) ==
    LET alpha == CeilSqrt(n_rows * n_cols)
        h == img.shape[3]
        w == img.shape[1]
        px == cor_mont.data[<<(k \div alpha) * h, (k % alpha) * w>>]
    IN  CHOOSE y \in 0..(img.shape[2] - 1) : img.data[<<0, y, 0>>] = px

\* The nearest integer to a/b (a >= 0, b > 0), halves to the even one.
Round(a, b) ==
    LET q == a \div b
        r == a % b
    IN  IF 2 * r < b \/ (2 * r = b /\ q % 2 = 0) THEN q ELSE q + 1

----------------------------------------------------------------------------
(* prob_montage (atlas_report.py): the crop around the thresholded atlas *)

\* padding=4 in the call of bb.
MontagePadding == 4

\* Lines 354-359: the box of bb(p_all > p_thresh, padding=4) and the crop
\* [x0:x1, y0:y1, z0:z1] taken with it; m is the mask p_all > p_thresh.  box
\* holds bb's limits and vox the mask voxels that the slices keep.
CropRanges(m) ==
    LET b == bb(m, MontagePadding)
    IN  IF b.outcome # "ok"
        THEN [outcome |-> b.outcome, box |-> <<>>, vox |-> {}]
        ELSE LET xs == Slice(m.shape[1], b.val[1], b.val[2])
                 ys == Slice(m.shape[2], b.val[3], b.val[4])
                 zs == Slice(m.shape[3], b.val[5], b.val[6])
             IN  [outcome |-> "ok", box |-> b.val,
                  vox |-> {v \in m.vox :
                              v[1] \in xs /\ v[2] \in ys /\ v[3] \in zs}]

\* prob_montage(atlas_dir, report_dir, bg_fname): the error bb raised, or
\* the name of the montage made of the crop.
prob_montage(m) ==
    LET c == CropRanges(m)
    IN  IF c.outcome # "ok" THEN [outcome |-> c.outcome, mont_fname |-> ""]
        ELSE [outcome |-> "ok", mont_fname |-> "prob_montage.png"]

\* Largest extents of the atlas cropped, and largest number of its voxels
\* above the threshold.
MaxCropX == 6

MaxCropY == 2

MaxCropZ == 2

MaxCropVox == 2

CropShapes == (1..MaxCropX) \X (1..MaxCropY) \X (1..MaxCropZ)

ProbInit ==
    /\ pc = "prob_input"
    /\ MeanIdle
    /\ BBIdle
    /\ LoadIdle
    /\ VolIdle
    /\ MontIdle
    /\ SumIdle
    /\ \E shape \in CropShapes :
          p_all \in {[shape |-> shape, vox |-> s] :
                       s \in UpTo(Voxels(shape), MaxCropVox)}
    /\ crop = NoCrop

\* The call prob_montage(atlas_dir, report_dir, bg_fname), as far as the
\* crop it makes.
ProbCall ==
    /\ pc = "prob_input"
    /\ crop' = CropRanges(p_all)
    /\ pc' = "prob_called"
    /\ UNCHANGED <<p_all, meanVars, bbVars, loadVars, volVars, montVars, sumVars>>

ProbNext == ProbCall

SpecProb == ProbInit /\ [][ProbNext]_vars

----------------------------------------------------------------------------
(* Claims about prob_montage *)

\* C16 (as claimed): the crop taken with the box of bb(p_all > 0.25,
\* padding=4) keeps every voxel above the threshold, those on the last index
\* of an axis included, and is non-empty on every axis.
C16_CropKeepsMask ==
    (pc = "prob_called" /\ crop.outcome = "ok") =>
        /\ \A v \in p_all.vox : v \in crop.vox
        /\ \A a \in 1..3 :
              \E i \in 0..(p_all.shape[a] - 1) :
                 crop.box[2 * a - 1] <= i /\ i < crop.box[2 * a]

----------------------------------------------------------------------------
(* summary_report (atlas_report.py): the similarity summary page *)

\* Largest number of (label, observer, template) segmentations left
\* unfinished in an atlas.
MaxUnfinished == 2

\* The values recorded upstream for label l, observer o and templates a, b
\* when the segmentations in U are unfinished: NaN when either template is
\* unfinished, 1.0 (dice) and 0.0 (haus) for a template against itself, else
\* a value that tells the label, the observer and the pair (0.9 and 2.0 for
\* the first pair of label 0, observer 0).
SummaryDice(l, o, a, b, U) ==
    IF <<l, o, a>> \in U \/ <<l, o, b>> \in U THEN NaN
    ELSE IF a = b THEN Num(1000)
    ELSE Num(900 - 100 * l - 20 * o - 4 * (a + b - 1))

SummaryHaus(l, o, a, b, U) ==
    IF <<l, o, a>> \in U \/ <<l, o, b>> \in U THEN NaN
    ELSE IF a = b THEN Num(0)
    ELSE Num(2000 + 1000 * l + 100 * o + 4 * (a + b - 1))

\* intra_observer_metrics.csv of an atlas whose segmentations in U are
\* unfinished; labels are numbered 0..n_labels-1 and written ascending.
WriteIntraUnfinished(n_labels, n_obs, n_tmp, U) ==
    [k \in 1..(n_labels * n_obs * n_tmp * n_tmp) |->
        LET t == Nested(k, n_obs, n_tmp, n_tmp)
        IN  [labelName |-> LabelName(t[1]), labelNo |-> t[1],
             observer |-> t[2], tmpA |-> t[3], tmpB |-> t[4],
             dice |-> SummaryDice(t[1], t[2], t[3], t[4], U),
             haus |-> SummaryHaus(t[1], t[2], t[3], t[4], U)]]

\* Mutant of TensorSlice: the observer index is ignored.
TensorSlice_first(t, ll, obs) ==
    [shape |-> t.shape[3],
     data |-> [ij \in Cells(t.shape[3]) |-> t.data[<<ll, 0, ij[1], ij[2]>>]]]

\* t[ll, obs, :, :]
TensorSlice(t, ll, obs) ==
    [shape |-> t.shape[3],
     data |-> [ij \in Cells(t.shape[3]) |-> t.data[<<ll, obs, ij[1], ij[2]>>]]]

\* np.where(np.isnan(np.diagonal(m)))[0]: the indices of the NaN diagonal
\* entries, ascending.
NaNDiagonal(m) == SortedSeq({t \in 0..(m.shape - 1) : m.data[<<t, t>>] = NaN})

RECURSIVE ArrayItems(_)
\* The elements of a numpy array of one-digit integers as str() prints them.
ArrayItems(a) ==
    IF Len(a) = 0 THEN ""
    ELSE IF Len(a) = 1 THEN IntStr(a[1])
    ELSE IntStr(a[1]) \o " " \o ArrayItems(Tail(a))

\* str(a) of a numpy array of one-digit integers: "[]", "[1]", "[0 2]".
ArrayStr(a) == "[" \o ArrayItems(a) \o "]"

\* The body of the loop over labels (lines 155-174) for observer obs.
LabelDict(im, ll, obs) ==
    LET this_intra_dice == TensorSlice(im.dice, ll, obs)
        this_intra_haus == TensorSlice(im.haus, ll, obs)
    IN  [label_name |-> im.label_names[ll + 1],
         label_no |-> im.label_nos[ll + 1],
         intra_dice_mean |-> mean_triu_str(this_intra_dice),
         intra_haus_mean |-> mean_triu_str(this_intra_haus),
         unfinished |-> ArrayStr(NaNDiagonal(this_intra_dice))]

\* The loops of lines 149-176: one list per observer, one dict per label.
Stats(im) ==
    [k \in 1..Len(im.observers) |->
        [j \in 1..Len(im.label_names) |-> LabelDict(im, j - 1, im.observers[k])]]

\* summary_report(atlas_dir, report_dir, intra_metrics, inter_metrics,
\* bg_fname): the montage is made first (line 140); an error it raises ends
\* the routine, nothing of the function catches it.  Indexing the tensors
\* with an observer number past the observer axis raises IndexError.
summary_report(m, im) ==
    LET mont == prob_montage(m)
    IN  IF mont.outcome # "ok"
        THEN [outcome |-> mont.outcome, montage_fname |-> "", stats |-> <<>>,
              written |-> {}]
        ELSE IF \E k \in 1..Len(im.observers) :
                   im.observers[k] >= im.dice.shape[2]
        THEN [outcome |-> "IndexError", montage_fname |-> mont.mont_fname,
              stats |-> <<>>, written |-> {}]
        ELSE [outcome |-> "ok", montage_fname |-> mont.mont_fname,
              stats |-> Stats(im), written |-> {"report/index.html"}]

\* The atlases summarised: two voxels a side, with no voxel or with one voxel
\* above the threshold.
SummaryAtlases ==
    {[shape |-> <<2, 2, 2>>, vox |-> s] : s \in {{}, {<<0, 0, 0>>}}}

\* The segmentations of an atlas.
Segmentations(n_labels, n_obs, n_tmp) ==
    (0..(n_labels - 1)) \X (0..(n_obs - 1)) \X (0..(n_tmp - 1))

SumInit ==
    /\ pc = "sum_input"
    /\ MeanIdle
    /\ BBIdle
    /\ LoadIdle
    /\ VolIdle
    /\ MontIdle
    /\ ProbIdle
    /\ atlas \in SummaryAtlases
    /\ \E n_labels \in 1..MaxLabels, n_obs \in 1..MaxObservers,
          n_tmp \in 1..MaxTemplates :
          /\ n_labels * n_obs * n_tmp * n_tmp >= 2
          /\ \E U \in UpTo(Segmentations(n_labels, n_obs, n_tmp), MaxUnfinished) :
                intra_stats = LoadIntra(WriteIntraUnfinished(n_labels, n_obs, n_tmp, U))
    /\ report = NoReport

\* The call summary_report(atlas_dir, report_dir, intra_stats, inter_stats,
\* bg_fname) of main().
SumCall ==
    /\ pc = "sum_input"
    /\ report' = summary_report(atlas, intra_stats)
    /\ pc' = "sum_called"
    /\ UNCHANGED <<atlas, intra_stats, meanVars, bbVars, loadVars, volVars,
                   montVars, probVars>>

SumNext == SumCall

SpecSum == SumInit /\ [][SumNext]_vars

----------------------------------------------------------------------------
(* Claims about summary_report *)

\* C11: the summary has one list per observer, in the order of observers,
\* each with one record per label in label order; the record of label index
\* l and observer o holds mean_triu_str of intra_dice[l, o, :, :] and of
\* intra_haus[l, o, :, :], and its unfinished entry lists exactly the
\* template indices whose diagonal entry of intra_dice[l, o, :, :] is NaN.
C11_SummaryRecords ==
    (pc = "sum_called" /\ report.outcome = "ok") =>
        LET im == intra_stats
            n == im.dice.shape[3]
            Mat(t, l, o) ==
                [shape |-> n,
                 data |-> [ij \in Cells(n) |-> t.data[<<l, o, ij[1], ij[2]>>]]]
        IN  /\ Len(report.stats) = Len(im.observers)
            /\ \A k \in 1..Len(im.observers) :
                  /\ Len(report.stats[k]) = Len(im.label_names)
                  /\ \A j \in 1..Len(im.label_names) :
                        LET r == report.stats[k][j]
                            o == im.observers[k]
                        IN  /\ r.intra_dice_mean = mean_triu_str(Mat(im.dice, j - 1, o))
                            /\ r.intra_haus_mean = mean_triu_str(Mat(im.haus, j - 1, o))
                            /\ r.unfinished =
                                  ArrayStr(SortedSeq({t \in 0..(n - 1) :
                                      im.dice.data[<<j - 1, o, t, t>>] = NaN}))

\* Two labels, two observers, two templates; observer 1 has not finished
\* template 1 of label 0: that record shows "-" and "[1]", the record of
\* observer 0 shows the finished pair's 0.900 and 2.000.
C11_Witness ==
    /\ pc = "sum_called"
    /\ report.outcome = "ok"
    /\ Len(report.stats) = 2
    /\ Len(report.stats[1]) = 2
    /\ report.stats[1][1].intra_dice_mean = "0.900"
    /\ report.stats[1][1].intra_haus_mean = "2.000"
    /\ report.stats[1][1].unfinished = "[]"
    /\ report.stats[2][1].intra_dice_mean = "-"
    /\ report.stats[2][1].unfinished = "[1]"
    /\ report.stats[2][2].intra_dice_mean = "0.780"

\* C14 (as claimed): with no voxel above the threshold only the montage
\* step fails: summary_report still builds the similarity summary, one list
\* per observer with one record per label, and writes report/index.html.
C14_SummaryDespiteEmptyMask ==
    (pc = "sum_called" /\ atlas.vox = {}) =>
        /\ Len(report.stats) = Len(intra_stats.observers)
        /\ \A k \in 1..Len(report.stats) :
              Len(report.stats[k]) = Len(intra_stats.label_names)
        /\ "report/index.html" \in report.written

\* All specifications together: a run models one of the routines.
Init == MeanInit \/ BBInit \/ LoadInit \/ VolInit \/ MontInit \/ SumInit
        \/ ProbInit

Next == MeanNext \/ BBNext \/ LoadNext \/ VolNext \/ MontNext \/ SumNext
        \/ ProbNext

Spec == Init /\ [][Next]_vars

====
